---- MODULE Spec2Model ----
(***************************************************************************)
(* Model of examples/04-gltf-model/main.cpp: the control flow of main(),   *)
(* the calls it issues to the VGFW framework (kept in the log `calls`),    *)
(* the loaded model's tables and the two texture pointers read from them,  *)
(* the camera/light locals edited by the ImGui widgets, and the uniform    *)
(* and texture-slot state those calls leave in the render context.         *)
(*                                                                         *)
(* Floats are kept in tenths (fov 60.0 is 600, lightPos (1.2,1,2) is       *)
(* <<12,10,20>>).  The window's aspect ratio is constant in the model, so  *)
(* the projection matrix is identified by fov, the view matrix by viewPos  *)
(* and the model matrix by the frame it was computed in (the elapsed time  *)
(* only grows from frame to frame).                                        *)
(***************************************************************************)
EXTENDS Integers, Sequences, FiniteSets, TLC

VARIABLES
    pc,                       \* position of main()
    calls,                    \* framework calls issued so far, in order
    stderr,                   \* lines written to std::cerr
    exitCode,                 \* <<v>> once main() has returned v, <<>> before
    suzanneModel,             \* vgfw::resource::Model filled by io::load
    baseColorTexture,         \* local pointer, line 177
    metallicRoughnessTexture, \* local pointer, line 179
    fov, viewPos, lightPos, lightColor, objectColor,  \* locals, lines 193-199
    transforms,               \* model/view/projection locals, lines 211-218
    uniforms,                 \* uniforms set on the bound pipeline
    textureSlots,             \* texture bound to each slot of the pipeline
    submitted,                \* uniforms and textures of the last Draw
    frames,                   \* loop iterations started
    uiEnd,                    \* camera/light values when endImGui last returned
    edited                    \* ImGui: a widget has taken this frame's edit

vars == <<pc, calls, stderr, exitCode, suzanneModel, baseColorTexture,
          metallicRoughnessTexture, fov, viewPos, lightPos, lightColor,
          objectColor, transforms, uniforms, textureSlots, submitted,
          frames, uiEnd, edited>>

(***************************************************************************)
(* Bounds of the model.                                                    *)
(***************************************************************************)
MaxFrames == 2
MaxMeshes == 1

(***************************************************************************)
(* Values.                                                                 *)
(***************************************************************************)
NULL == 0
InitFailureExitCode == -1
LoadFailureExitCode == -1
SuccessExitCode == 0
\* The second mesh read instead of the first.
MeshIndex_Second == 0 + 1
MeshIndex == 0
BaseColorSlot == 0
MetallicRoughnessSlot == 1

InitFailureDiagnostic == "Failed to initialize VGFW"

DefaultFov == 600
DefaultViewPos == <<0, 0, 30>>
DefaultLightPos == <<12, 10, 20>>
DefaultLightColor == <<10, 10, 10>>
DefaultObjectColor == <<10, 10, 10>>

\* Values a widget can leave in its variable (the slider keeps fov in 1..179).
FovValues == {DefaultFov, 900}
ViewPosValues == {DefaultViewPos, <<0, 0, 50>>}
LightPosValues == {DefaultLightPos, <<0, 30, 0>>}
LightColorValues == {DefaultLightColor, <<10, 0, 0>>}
ObjectColorValues == {DefaultObjectColor, <<0, 0, 10>>}

Unset == <<0, 0, 0>>
NoTransforms == [model |-> 0, view |-> Unset, projection |-> 0]
NoUniforms == [model |-> 0, view |-> Unset, projection |-> 0, lightPos |-> Unset,
               viewPos |-> Unset, lightColor |-> Unset, objectColor |-> Unset]
NoTextures == [s \in {BaseColorSlot, MetallicRoughnessSlot} |-> NULL]
NoCamera == [fov |-> 0, viewPos |-> Unset, lightPos |-> Unset,
             lightColor |-> Unset, objectColor |-> Unset]
Camera == [fov |-> fov, viewPos |-> viewPos, lightPos |-> lightPos,
           lightColor |-> lightColor, objectColor |-> objectColor]

(***************************************************************************)
(* The model tables.  Map keys are indices; a texture pointer is a nonzero *)
(* handle, NULL is the null pointer.                                       *)
(***************************************************************************)
MaterialIds == {0, 1}
TextureIds == {0, 1}
\* An index that is a key of no table.
OutOfTable == {-1}
TexturePtr(k) == k + 1
EmptyMap == [k \in {} |-> NULL]
EmptyModel == [Meshes |-> <<>>, MaterialMap |-> EmptyMap, TextureMap |-> EmptyMap]

Materials(texKeys) == [BaseColorTextureIndex : texKeys,
                       MetallicRoughnessTextureIndex : texKeys]
MeshSeqs(matKeys) == UNION {[1..n -> [MaterialIndex : matKeys]] : n \in 1..MaxMeshes}

\* The key sets of the tables io::load fills: one material under either
\* index, one or two textures.
MaterialKeySets == {{k} : k \in MaterialIds}
TextureKeySets == (SUBSET TextureIds) \ {{}}

\* The models io::load can hand back with `true`: at least one mesh, every
\* material index a key of MaterialMap, every texture index a key of
\* TextureMap, every texture pointer non-null.
LoadableModels ==
    UNION {
      UNION {
        { [Meshes |-> ms, MaterialMap |-> mm,
           TextureMap |-> [k \in texKeys |-> TexturePtr(k)]] :
            ms \in MeshSeqs(matKeys), mm \in [matKeys -> Materials(texKeys)] }
        : matKeys \in MaterialKeySets }
      : texKeys \in TextureKeySets }

\* std::vector::operator[] : the element, or any mesh at all past the end.
MeshRead(m, i) ==
    IF i < Len(m.Meshes) THEN {m.Meshes[i + 1]}
    ELSE [MaterialIndex : MaterialIds \cup OutOfTable]

\* map::operator[] on MaterialMap: the element, or a default-constructed
\* Material inserted under the key.
DefaultMaterials == Materials(TextureIds \cup OutOfTable)
MaterialRead(m, k) ==
    IF k \in DOMAIN m.MaterialMap THEN {m.MaterialMap[k]} ELSE DefaultMaterials

\* map::operator[] on TextureMap: the pointer, or a null pointer inserted.
TextureRead(m, k) == IF k \in DOMAIN m.TextureMap THEN m.TextureMap[k] ELSE NULL

MapInsert(f, k, v) == [x \in DOMAIN f \cup {k} |-> IF x \in DOMAIN f THEN f[x] ELSE v]

Count(s, c) == Cardinality({i \in 1..Len(s) : s[i] = c})
Last(s) == IF s = <<>> THEN "" ELSE s[Len(s)]

Init ==
    /\ pc = "init"
    /\ calls = <<>>
    /\ stderr = <<>>
    /\ exitCode = <<>>
    /\ suzanneModel = EmptyModel
    /\ baseColorTexture = NULL
    /\ metallicRoughnessTexture = NULL
    /\ fov = 0
    /\ viewPos = Unset
    /\ lightPos = Unset
    /\ lightColor = Unset
    /\ objectColor = Unset
    /\ transforms = NoTransforms
    /\ uniforms = NoUniforms
    /\ textureSlots = NoTextures
    /\ submitted = [uniforms |-> NoUniforms, textures |-> NoTextures]
    /\ frames = 0
    /\ uiEnd = NoCamera
    /\ edited = FALSE

cameraVars == <<fov, viewPos, lightPos, lightColor, objectColor>>
modelVars == <<suzanneModel, baseColorTexture, metallicRoughnessTexture>>
renderVars == <<transforms, uniforms, textureSlots, submitted>>
exitVars == <<stderr, exitCode>>

\* A framework call that only moves main() on.
Call(from, names, to) ==
    /\ pc = from
    /\ calls' = calls \o names
    /\ pc' = to

(***************************************************************************)
(* Start-up, lines 128-167.                                                *)
(***************************************************************************)
\* The check of init's result left out.
AfterInit_Unchecked(ok) == "window_create"

AfterInit(ok) == IF ok THEN "window_create" ELSE "init_failed"

VgfwInit ==
    \E ok \in BOOLEAN :
        /\ Call("init", <<IF ok THEN "vgfw::init:true" ELSE "vgfw::init:false">>,
                AfterInit(ok))
        /\ UNCHANGED <<exitVars, modelVars, cameraVars, renderVars, frames, uiEnd, edited>>

InitFailed ==
    /\ pc = "init_failed"
    /\ stderr' = Append(stderr, InitFailureDiagnostic)
    /\ exitCode' = <<InitFailureExitCode>>
    /\ pc' = "done"
    /\ UNCHANGED <<calls, modelVars, cameraVars, renderVars, frames, uiEnd, edited>>

WindowCreate ==
    /\ Call("window_create", <<"window::create">>, "renderer_init")
    /\ UNCHANGED <<exitVars, modelVars, cameraVars, renderVars, frames, uiEnd, edited>>

RendererInit ==
    /\ Call("renderer_init", <<"renderer::init">>, "get_render_context")
    /\ UNCHANGED <<exitVars, modelVars, cameraVars, renderVars, frames, uiEnd, edited>>

GetRenderContext ==
    /\ Call("get_render_context", <<"getRenderContext">>, "build_vertex_format")
    /\ UNCHANGED <<exitVars, modelVars, cameraVars, renderVars, frames, uiEnd, edited>>

BuildVertexFormat ==
    /\ Call("build_vertex_format", <<"VertexFormat::BuildDefault">>, "get_vertex_array")
    /\ UNCHANGED <<exitVars, modelVars, cameraVars, renderVars, frames, uiEnd, edited>>

GetVertexArray ==
    /\ Call("get_vertex_array", <<"GetVertexArray">>, "create_program")
    /\ UNCHANGED <<exitVars, modelVars, cameraVars, renderVars, frames, uiEnd, edited>>

CreateGraphicsProgram ==
    /\ Call("create_program", <<"CreateGraphicsProgram">>, "build_pipeline")
    /\ UNCHANGED <<exitVars, modelVars, cameraVars, renderVars, frames, uiEnd, edited>>

BuildGraphicsPipeline ==
    /\ Call("build_pipeline", <<"GraphicsPipeline::Build">>, "load")
    /\ UNCHANGED <<exitVars, modelVars, cameraVars, renderVars, frames, uiEnd, edited>>

(***************************************************************************)
(* Model load and texture lookup, lines 169-187.                           *)
(***************************************************************************)
\* The check of load's result left out.
AfterLoad_Unchecked(ok) == "get_textures"

AfterLoad(ok) == IF ok THEN "get_textures" ELSE "load_failed"

Load ==
    \/ \E m \in LoadableModels :
        /\ Call("load", <<"io::load:true">>, AfterLoad(TRUE))
        /\ suzanneModel' = m
        /\ UNCHANGED <<exitVars, baseColorTexture, metallicRoughnessTexture,
                       cameraVars, renderVars, frames, uiEnd, edited>>
    \/ /\ Call("load", <<"io::load:false">>, AfterLoad(FALSE))
       /\ UNCHANGED <<exitVars, modelVars, cameraVars, renderVars, frames, uiEnd, edited>>

\* The failed load reported as success.
LoadFailed_ReturnsSuccess ==
    /\ pc = "load_failed"
    /\ exitCode' = <<SuccessExitCode>>
    /\ pc' = "done"
    /\ UNCHANGED <<calls, stderr, modelVars, cameraVars, renderVars, frames, uiEnd, edited>>

LoadFailed ==
    /\ pc = "load_failed"
    /\ exitCode' = <<LoadFailureExitCode>>
    /\ pc' = "done"
    /\ UNCHANGED <<calls, stderr, modelVars, cameraVars, renderVars, frames, uiEnd, edited>>

\* The texture index main() reads from the material for each of its two
\* pointers (lines 178 and 180).
BaseColorKey(mat) == mat.BaseColorTextureIndex
MetallicRoughnessKey(mat) == mat.BaseColorTextureIndex

\* The index read for the pointer `which`.
KeyOf(mat, which) ==
    IF which = "baseColorTexture" THEN BaseColorKey(mat) ELSE MetallicRoughnessKey(mat)

\* One evaluation of
\*   model.TextureMap[model.MaterialMap[model.Meshes[0].MaterialIndex].<index>]
\* on model m: the set of <<pointer, model afterwards>> it can produce.
Lookup(m, which) ==
    { <<TextureRead(m, KeyOf(r[2], which)),
        [m EXCEPT !.MaterialMap = MapInsert(@, r[1].MaterialIndex, r[2]),
                  !.TextureMap = MapInsert(@, KeyOf(r[2], which), NULL)]>> :
        r \in UNION { {<<mesh, mat>> : mat \in MaterialRead(m, mesh.MaterialIndex)} :
                      mesh \in MeshRead(m, MeshIndex) } }

GetTextures ==
    /\ pc = "get_textures"
    /\ \E r1 \in Lookup(suzanneModel, "baseColorTexture") :
         \E r2 \in Lookup(r1[2], "metallicRoughnessTexture") :
            /\ baseColorTexture' = r1[1]
            /\ metallicRoughnessTexture' = r2[1]
            /\ suzanneModel' = r2[2]
    /\ pc' = "create_index_buffer"
    /\ UNCHANGED <<calls, exitVars, cameraVars, renderVars, frames, uiEnd, edited>>

CreateIndexBuffer ==
    /\ Call("create_index_buffer", <<"CreateIndexBuffer">>, "create_vertex_buffer")
    /\ UNCHANGED <<exitVars, modelVars, cameraVars, renderVars, frames, uiEnd, edited>>

CreateVertexBuffer ==
    /\ Call("create_vertex_buffer", <<"CreateVertexBuffer">>, "declare_locals")
    /\ UNCHANGED <<exitVars, modelVars, cameraVars, renderVars, frames, uiEnd, edited>>

\* startTime and the camera/light locals, lines 189-199.
DeclareLocals ==
    /\ pc = "declare_locals"
    /\ fov' = DefaultFov
    /\ viewPos' = DefaultViewPos
    /\ lightPos' = DefaultLightPos
    /\ lightColor' = DefaultLightColor
    /\ objectColor' = DefaultObjectColor
    /\ pc' = "loop"
    /\ UNCHANGED <<calls, exitVars, modelVars, transforms, uniforms, textureSlots,
                   submitted, frames, uiEnd, edited>>

(***************************************************************************)
(* The frame loop, lines 202-250.                                          *)
(***************************************************************************)
AfterShouldClose(close) == IF close THEN "destroy_index" ELSE "on_tick"

\* while (!window->ShouldClose()): the window's answer is an input; the
\* model lets it answer `false` MaxFrames times at most.
ShouldClose ==
    \E close \in BOOLEAN :
        /\ close \/ frames < MaxFrames
        /\ Call("loop", <<IF close THEN "ShouldClose:true" ELSE "ShouldClose:false">>,
                AfterShouldClose(close))
        /\ frames' = IF close THEN frames ELSE frames + 1
        /\ UNCHANGED <<exitVars, modelVars, cameraVars, renderVars, uiEnd, edited>>

OnTick ==
    /\ Call("on_tick", <<"OnTick">>, "transforms")
    /\ UNCHANGED <<exitVars, modelVars, cameraVars, renderVars, frames, uiEnd, edited>>

\* The projection built from the default fov instead of the variable.
ComputeTransforms_FixedFov ==
    /\ transforms' = [model |-> frames, view |-> viewPos, projection |-> DefaultFov]
    /\ Call("transforms", <<"glm::rotate", "glm::lookAt", "glm::perspective">>,
            "begin_rendering")
    /\ UNCHANGED <<exitVars, modelVars, cameraVars, uniforms, textureSlots,
                   submitted, frames, uiEnd, edited>>

\* Lines 207-218: the clock is read, then the three matrices are built.
ComputeTransforms ==
    /\ transforms' = [model |-> frames, view |-> viewPos, projection |-> fov]
    /\ Call("transforms", <<"glm::rotate", "glm::lookAt", "glm::perspective">>,
            "begin_rendering")
    /\ UNCHANGED <<exitVars, modelVars, cameraVars, uniforms, textureSlots,
                   submitted, frames, uiEnd, edited>>

\* BeginRendering left out of the frame.
BeginRendering_Missing ==
    /\ pc = "begin_rendering"
    /\ pc' = "bind_pipeline"
    /\ UNCHANGED <<calls, exitVars, modelVars, cameraVars, renderVars, frames, uiEnd, edited>>

BeginRendering ==
    /\ Call("begin_rendering", <<"BeginRendering">>, "bind_pipeline")
    /\ UNCHANGED <<exitVars, modelVars, cameraVars, renderVars, frames, uiEnd, edited>>

\* Lines 224-231: BindGraphicsPipeline and its seven uniform setters.
BindGraphicsPipeline ==
    /\ Call("bind_pipeline",
            <<"BindGraphicsPipeline",
              "SetUniformMat4:model", "SetUniformMat4:view",
              "SetUniformMat4:projection",
              "SetUniformVec3:lightPos", "SetUniformVec3:viewPos",
              "SetUniformVec3:lightColor", "SetUniformVec3:objectColor">>,
            "bind_texture0")
    /\ uniforms' = [model |-> transforms.model, view |-> transforms.view,
                    projection |-> transforms.projection,
                    lightPos |-> lightPos, viewPos |-> viewPos,
                    lightColor |-> lightColor, objectColor |-> objectColor]
    /\ UNCHANGED <<exitVars, modelVars, cameraVars, transforms,
                   textureSlots, submitted, frames, uiEnd, edited>>

BindTexture0 ==
    /\ Call("bind_texture0", <<"BindTexture:0">>, "bind_texture1")
    /\ textureSlots' = [textureSlots EXCEPT ![BaseColorSlot] = baseColorTexture]
    /\ UNCHANGED <<exitVars, modelVars, cameraVars, transforms, uniforms,
                   submitted, frames, uiEnd, edited>>

BindTexture1 ==
    /\ Call("bind_texture1", <<"BindTexture:1">>, "draw")
    /\ textureSlots' = [textureSlots EXCEPT
                            ![MetallicRoughnessSlot] = metallicRoughnessTexture]
    /\ UNCHANGED <<exitVars, modelVars, cameraVars, transforms, uniforms,
                   submitted, frames, uiEnd, edited>>

\* The frame presented right after the draw, the UI block left out.
Draw_WithoutUI ==
    /\ Call("draw", <<"Draw">>, "present")
    /\ submitted' = [uniforms |-> uniforms, textures |-> textureSlots]
    /\ UNCHANGED <<exitVars, modelVars, cameraVars, transforms, uniforms,
                   textureSlots, frames, uiEnd, edited>>

Draw ==
    /\ Call("draw", <<"Draw">>, "begin_imgui")
    /\ submitted' = [uniforms |-> uniforms, textures |-> textureSlots]
    /\ UNCHANGED <<exitVars, modelVars, cameraVars, transforms, uniforms,
                   textureSlots, frames, uiEnd, edited>>

\* A new ImGui frame: no widget has taken an edit yet.
BeginImGui ==
    /\ Call("begin_imgui", <<"beginImGui">>, "imgui_begin")
    /\ edited' = FALSE
    /\ UNCHANGED <<exitVars, modelVars, cameraVars, renderVars, frames, uiEnd>>

ImGuiBegin ==
    /\ Call("imgui_begin", <<"ImGui::Begin">>, "slider_fov")
    /\ UNCHANGED <<exitVars, modelVars, cameraVars, renderVars, frames, uiEnd, edited>>

\* Each widget may leave its variable as it is or store an edited value; ImGui
\* has one active item, so one widget at most stores an edit in a frame.
Edit(v, values) == IF edited THEN {v} ELSE values \cup {v}
SliderFov ==
    /\ Call("slider_fov", <<"ImGui::SliderFloat:fov">>, "drag_view_pos")
    /\ fov' \in Edit(fov, FovValues)
    /\ edited' = (edited \/ fov' # fov)
    /\ UNCHANGED <<exitVars, modelVars, viewPos, lightPos, lightColor, objectColor,
                   renderVars, frames, uiEnd>>

DragViewPos ==
    /\ Call("drag_view_pos", <<"ImGui::DragFloat3:viewPos">>, "drag_light_pos")
    /\ viewPos' \in Edit(viewPos, ViewPosValues)
    /\ edited' = (edited \/ viewPos' # viewPos)
    /\ UNCHANGED <<exitVars, modelVars, fov, lightPos, lightColor, objectColor,
                   renderVars, frames, uiEnd>>

DragLightPos ==
    /\ Call("drag_light_pos", <<"ImGui::DragFloat3:lightPos">>, "color_light")
    /\ lightPos' \in Edit(lightPos, LightPosValues)
    /\ edited' = (edited \/ lightPos' # lightPos)
    /\ UNCHANGED <<exitVars, modelVars, fov, viewPos, lightColor, objectColor,
                   renderVars, frames, uiEnd>>

ColorEditLight ==
    /\ Call("color_light", <<"ImGui::ColorEdit3:lightColor">>, "color_object")
    /\ lightColor' \in Edit(lightColor, LightColorValues)
    /\ edited' = (edited \/ lightColor' # lightColor)
    /\ UNCHANGED <<exitVars, modelVars, fov, viewPos, lightPos, objectColor,
                   renderVars, frames, uiEnd>>

ColorEditObject ==
    /\ Call("color_object", <<"ImGui::ColorEdit3:objectColor">>, "imgui_end")
    /\ objectColor' \in Edit(objectColor, ObjectColorValues)
    /\ edited' = (edited \/ objectColor' # objectColor)
    /\ UNCHANGED <<exitVars, modelVars, fov, viewPos, lightPos, lightColor,
                   renderVars, frames, uiEnd>>

ImGuiEnd ==
    /\ Call("imgui_end", <<"ImGui::End">>, "end_imgui")
    /\ UNCHANGED <<exitVars, modelVars, cameraVars, renderVars, frames, uiEnd, edited>>

EndImGui ==
    /\ Call("end_imgui", <<"endImGui">>, "present")
    /\ uiEnd' = Camera
    /\ UNCHANGED <<exitVars, modelVars, cameraVars, renderVars, frames, edited>>

Present ==
    /\ Call("present", <<"present">>, "loop")
    /\ UNCHANGED <<exitVars, modelVars, cameraVars, renderVars, frames, uiEnd, edited>>

(***************************************************************************)
(* Teardown, lines 252-257.                                                *)
(***************************************************************************)
\* The vertex buffer destroyed in place of the index buffer.
DestroyIndexBuffer_WrongBuffer ==
    /\ Call("destroy_index", <<"Destroy:vertexBuffer">>, "destroy_vertex")
    /\ UNCHANGED <<exitVars, modelVars, cameraVars, renderVars, frames, uiEnd, edited>>

DestroyIndexBuffer ==
    /\ Call("destroy_index", <<"Destroy:indexBuffer">>, "destroy_vertex")
    /\ UNCHANGED <<exitVars, modelVars, cameraVars, renderVars, frames, uiEnd, edited>>

DestroyVertexBuffer ==
    /\ Call("destroy_vertex", <<"Destroy:vertexBuffer">>, "shutdown")
    /\ UNCHANGED <<exitVars, modelVars, cameraVars, renderVars, frames, uiEnd, edited>>

Shutdown ==
    /\ Call("shutdown", <<"vgfw::shutdown">>, "return")
    /\ UNCHANGED <<exitVars, modelVars, cameraVars, renderVars, frames, uiEnd, edited>>

Return ==
    /\ pc = "return"
    /\ exitCode' = <<SuccessExitCode>>
    /\ pc' = "done"
    /\ UNCHANGED <<calls, stderr, modelVars, cameraVars, renderVars, frames, uiEnd, edited>>

Next ==
    \/ VgfwInit \/ InitFailed \/ WindowCreate \/ RendererInit \/ GetRenderContext
    \/ BuildVertexFormat \/ GetVertexArray \/ CreateGraphicsProgram
    \/ BuildGraphicsPipeline \/ Load \/ LoadFailed \/ GetTextures
    \/ CreateIndexBuffer \/ CreateVertexBuffer \/ DeclareLocals
    \/ ShouldClose \/ OnTick \/ ComputeTransforms \/ BeginRendering
    \/ BindGraphicsPipeline \/ BindTexture0 \/ BindTexture1 \/ Draw
    \/ BeginImGui \/ ImGuiBegin \/ SliderFov \/ DragViewPos \/ DragLightPos
    \/ ColorEditLight \/ ColorEditObject \/ ImGuiEnd \/ EndImGui \/ Present
    \/ DestroyIndexBuffer \/ DestroyVertexBuffer \/ Shutdown \/ Return

Spec == Init /\ [][Next]_vars

\* main() is a sequential program that keeps running until it returns.
FairSpec == Spec /\ WF_vars(Next)

(***************************************************************************)
(* Vocabulary of the claims, over the log of calls.                        *)
(***************************************************************************)
Occurs(c) == \E i \in 1..Len(calls) : calls[i] = c
OccursBefore(c, i) == \E j \in 1..(i - 1) : calls[j] = c

StartupCalls ==
    <<"vgfw::init:true", "window::create", "renderer::init", "getRenderContext",
      "VertexFormat::BuildDefault", "GetVertexArray", "CreateGraphicsProgram",
      "GraphicsPipeline::Build", "io::load:true", "CreateIndexBuffer",
      "CreateVertexBuffer">>

FrameSequence ==
    <<"ShouldClose:false", "OnTick",
      "glm::rotate", "glm::lookAt", "glm::perspective",
      "BeginRendering", "BindGraphicsPipeline",
      "SetUniformMat4:model", "SetUniformMat4:view", "SetUniformMat4:projection",
      "SetUniformVec3:lightPos", "SetUniformVec3:viewPos",
      "SetUniformVec3:lightColor", "SetUniformVec3:objectColor",
      "BindTexture:0", "BindTexture:1", "Draw",
      "beginImGui", "ImGui::Begin", "ImGui::SliderFloat:fov",
      "ImGui::DragFloat3:viewPos", "ImGui::DragFloat3:lightPos",
      "ImGui::ColorEdit3:lightColor", "ImGui::ColorEdit3:objectColor",
      "ImGui::End", "endImGui", "present">>

TeardownSequence == <<"Destroy:indexBuffer", "Destroy:vertexBuffer", "vgfw::shutdown">>

SeqRange(q) == {q[i] : i \in 1..Len(q)}
PerFrameCalls == {"OnTick", "BeginRendering", "BindGraphicsPipeline", "Draw",
                  "beginImGui", "endImGui", "present"}
FrameCalls == SeqRange(FrameSequence)
TeardownCalls == SeqRange(TeardownSequence)
IsPrefix(a, b) == Len(a) <= Len(b) /\ \A i \in 1..Len(a) : a[i] = b[i]

\* Phase of a call: 1 framework init, 2 window/renderer/pipeline construction,
\* 3 model load (with the buffers built from the loaded meshes), 4 frame loop
\* (with its loop test), 5 teardown.
Phase(c) ==
    IF c \in {"vgfw::init:true", "vgfw::init:false"} THEN 1
    ELSE IF c \in {"io::load:true", "io::load:false", "CreateIndexBuffer",
                   "CreateVertexBuffer"} THEN 3
    ELSE IF c \in FrameCalls \cup {"ShouldClose:true"} THEN 4
    ELSE IF c \in TeardownCalls THEN 5
    ELSE 2

\* C1: the calls of main() come in the order init, construction, model load,
\* frame loop, teardown; a per-frame call is preceded by vgfw::init returning
\* true and by io::load returning true, and a teardown call is preceded by the
\* loop test that ended the loop.
C1_PhaseOrder ==
    LET perFrame == {i \in 1..Len(calls) : calls[i] \in PerFrameCalls}
        teardown == {i \in 1..Len(calls) : calls[i] \in TeardownCalls}
        First(S) == CHOOSE i \in S : \A j \in S : i <= j
    IN  /\ \A i \in 2..Len(calls) : Phase(calls[i - 1]) <= Phase(calls[i])
        /\ perFrame # {} =>
              /\ OccursBefore("vgfw::init:true", First(perFrame))
              /\ OccursBefore("io::load:true", First(perFrame))
        /\ teardown # {} => OccursBefore("ShouldClose:true", First(teardown))

\* A run that rendered a frame and then went through the whole teardown.
C1_Witness == pc = "done" /\ Occurs("present") /\ Occurs("vgfw::shutdown")

\* C2: once vgfw::init has returned false, main() makes no other framework
\* call, and it ends with "Failed to initialize VGFW" on std::cerr and exit
\* code -1.
C2_InitFailure ==
    Occurs("vgfw::init:false") =>
        /\ calls = <<"vgfw::init:false">>
        /\ pc \in {"init_failed", "done"}
        /\ pc = "done" => stderr = <<"Failed to initialize VGFW">> /\ exitCode = <<-1>>

C2_Witness == pc = "done" /\ Occurs("vgfw::init:false")

\* C3: once io::load has returned false, main() returns -1 with nothing on
\* std::cerr, having called load once, created no buffer and run no frame.
C3_LoadFailure ==
    /\ Count(calls, "io::load:true") + Count(calls, "io::load:false") <= 1
    /\ Occurs("io::load:false") =>
        /\ pc \in {"load_failed", "done"}
        /\ Last(calls) = "io::load:false"
        /\ stderr = <<>>
        /\ ~Occurs("CreateIndexBuffer") /\ ~Occurs("CreateVertexBuffer")
        /\ \A i \in 1..Len(calls) : calls[i] \notin FrameCalls
        /\ pc = "done" => exitCode = <<-1>>

C3_Witness == pc = "done" /\ Occurs("io::load:false")

\* The calls issued after start-up.
LoopCalls == SubSeq(calls, Len(StartupCalls) + 1, Len(calls))

\* C4: until the loop ends, the calls after start-up are the fixed frame
\* sequence repeated: call number i is element ((i-1) mod length)+1 of it, so
\* every frame issues each call once, in order, after the present of the
\* frame before it.
C4_FrameSequence ==
    Occurs("io::load:true") =>
        \A i \in 1..Len(LoopCalls) :
            \/ LoopCalls[i] = FrameSequence[((i - 1) % Len(FrameSequence)) + 1]
            \/ \E j \in 1..i : /\ LoopCalls[j] = "ShouldClose:true"
                               /\ (j - 1) % Len(FrameSequence) = 0

\* Two whole frames have been presented.
C4_Witness == pc = "loop" /\ frames = 2 /\ Last(calls) = "present"

\* C5 as stated: at every present, as many end-rendering calls as
\* BeginRendering calls have been made, and BeginRendering is only called with
\* no pass open.
C5_BeginEndPaired ==
    /\ Last(calls) = "present" =>
          Count(calls, "EndRendering") = Count(calls, "BeginRendering")
    /\ Last(calls) = "BeginRendering" =>
          Count(calls, "BeginRendering") = Count(calls, "EndRendering") + 1

\* C5, amended: every frame opens one rendering pass with BeginRendering before
\* its present, and main() never calls end-rendering: at every present there
\* have been as many BeginRendering calls as present calls, and no
\* EndRendering call.
C5_BeginPerFrame ==
    /\ ~Occurs("EndRendering")
    /\ Last(calls) = "present" =>
          Count(calls, "BeginRendering") = Count(calls, "present")
    /\ Last(calls) = "BeginRendering" =>
          Count(calls, "BeginRendering") = Count(calls, "present") + 1

\* The second frame has been presented.
C5_Witness == Last(calls) = "present" /\ Count(calls, "BeginRendering") = 2

\* The material of mesh 0 of the loaded model.
Mesh0Material == suzanneModel.MaterialMap[suzanneModel.Meshes[1].MaterialIndex]

\* C6: when a frame is drawn, slot 0 holds the base-color texture of mesh 0's
\* material and slot 1 its metallic-roughness texture, so the slots hold two
\* different textures when the material's two texture indices differ.
C6_TextureSlots ==
    pc = "begin_imgui" =>
        /\ submitted.textures[0] =
              suzanneModel.TextureMap[Mesh0Material.BaseColorTextureIndex]
        /\ submitted.textures[1] =
              suzanneModel.TextureMap[Mesh0Material.MetallicRoughnessTextureIndex]
        /\ Mesh0Material.BaseColorTextureIndex
              # Mesh0Material.MetallicRoughnessTextureIndex
              => submitted.textures[0] # submitted.textures[1]

CameraOf(u) == [fov |-> u.projection, viewPos |-> u.viewPos, lightPos |-> u.lightPos,
                lightColor |-> u.lightColor, objectColor |-> u.objectColor]

C8_Defaults == [fov |-> 600, viewPos |-> <<0, 0, 30>>, lightPos |-> <<12, 10, 20>>,
                lightColor |-> <<10, 10, 10>>, objectColor |-> <<10, 10, 10>>]

UIBlock == {"begin_imgui", "imgui_begin", "slider_fov", "drag_view_pos",
            "drag_light_pos", "color_light", "color_object", "imgui_end", "end_imgui"}
WidgetSteps == {"slider_fov", "drag_view_pos", "drag_light_pos", "color_light",
                "color_object"}

\* From the draw of a frame to the end of its UI block, the draw submitted is
\* the one built from the values the previous frame's UI block ended with
\* (the defaults in the first frame).
C8_Latency ==
    pc \in UIBlock =>
        /\ CameraOf(submitted.uniforms) = IF frames = 1 THEN C8_Defaults ELSE uiEnd
        /\ submitted.uniforms.view = submitted.uniforms.viewPos

\* A step that is no widget leaves the five variables alone (their
\* declaration aside), and a step of the UI block leaves the draw alone.
C8_Step ==
    /\ pc \notin WidgetSteps \cup {"declare_locals"} => UNCHANGED cameraVars
    /\ pc \in UIBlock \cup {"present"} => UNCHANGED <<uniforms, submitted>>

\* C8: the values drawn with in frame k are those frame k-1's UI block ended
\* with; an edit in frame k's UI block does not change frame k's draw, and only
\* the widgets change the five variables.
C8_OneFrameLatency == [][C8_Step]_vars /\ []C8_Latency

\* Frame 2 was drawn with an edit of frame 1 and has an edit of its own pending.
C8_Witness ==
    /\ pc = "end_imgui" /\ frames = 2
    /\ CameraOf(submitted.uniforms) # C8_Defaults
    /\ Camera # CameraOf(submitted.uniforms)

\* The calls issued from the loop test that ended the loop on.
AfterClose ==
    LET i == CHOOSE k \in 1..Len(calls) : calls[k] = "ShouldClose:true"
    IN  SubSeq(calls, i + 1, Len(calls))

\* The loop body starts right after a loop test that answered false and only
\* then; after the test that answers true come Destroy(indexBuffer),
\* Destroy(vertexBuffer) and shutdown, once each in that order, and main()
\* returns 0.
C9_Safety ==
    /\ \A i \in 1..Len(calls) :
        /\ calls[i] = "OnTick" => i > 1 /\ calls[i - 1] = "ShouldClose:false"
        /\ (calls[i] = "ShouldClose:false" /\ i < Len(calls)) => calls[i + 1] = "OnTick"
        /\ calls[i] \in {"ShouldClose:false", "ShouldClose:true"} =>
              i > 1 /\ calls[i - 1] \in {"CreateVertexBuffer", "present"}
    /\ Count(calls, "ShouldClose:true") <= 1
    /\ Occurs("ShouldClose:true") =>
        /\ IsPrefix(AfterClose, TeardownSequence)
        /\ pc = "done" => AfterClose = TeardownSequence /\ exitCode = <<0>>
    /\ (pc = "done" /\ Occurs("io::load:true")) => Occurs("ShouldClose:true")

\* C9: the loop runs while ShouldClose() answers false, and once it answers
\* true main() goes on to the three teardown calls and returns 0.
C9_LoopExit ==
    /\ []C9_Safety
    /\ Occurs("ShouldClose:true") ~> (pc = "done" /\ exitCode = <<0>>)

\* A run of two frames that has returned.
C9_Witness == pc = "done" /\ exitCode = <<0>> /\ frames = 2

\* C10: a run in which vgfw::init returned true has called vgfw::shutdown
\* exactly once when main() returns, after destroying every buffer it created
\* exactly once.
C10_ReleasePaired ==
    (pc = "done" /\ Occurs("vgfw::init:true")) =>
        /\ Count(calls, "vgfw::shutdown") = 1
        /\ Count(calls, "Destroy:indexBuffer") = Count(calls, "CreateIndexBuffer")
        /\ Count(calls, "Destroy:vertexBuffer") = Count(calls, "CreateVertexBuffer")
        /\ Last(calls) = "vgfw::shutdown"

====
